---- MODULE Spec2Model ----
(***************************************************************************)
(* piewin (src/main.c): a fullscreen pie menu.  The model covers the       *)
(* hit test sector_index_from_point, the start-up path of main, the event  *)
(* loop with one action per case of its switch, and the cleanup.           *)
(*                                                                         *)
(* Angles are never stored.  floor(atan2(dy,dx) / step) is computed by     *)
(* counting the wedge boundaries i*step that lie at or before the          *)
(* direction (dx,dy); a boundary is compared with a direction by the sign  *)
(* of a cross product against (cos, sin)(i*step) scaled by 10^6.  The      *)
(* compiled C function and this computation agree on every n <= 8, every   *)
(* canvas up to 5x5 and every point in -2..6.                              *)
(***************************************************************************)
EXTENDS Integers, Sequences, FiniteSets, TLC

VARIABLES pc, stdin, entries, count, width, height, hover_idx, pressed_idx,
          running, exit_code, out, ndraw, frame, ev, nev, surf, grabbed,
          win, status, hit, repeat, rel_log, fit, ptr

vars == <<pc, stdin, entries, count, width, height, hover_idx, pressed_idx,
          running, exit_code, out, ndraw, frame, ev, nev, surf, grabbed,
          win, status, hit, repeat, rel_log, fit, ptr>>

(***************************************************************************)
(* Bounds of the model.                                                    *)
(***************************************************************************)
MaxN == 3
MaxDim == 3
MaxEvents == 2
MaxBox == 3
MaxSlope == 2

(***************************************************************************)
(* Program constants.                                                      *)
(***************************************************************************)
XK_Escape == 65307
KeyQLower == 113
KeyQUpper == 81
LeftButton == 1
ExitCancel == 1
ExitSelect == 0
FitSteps == 20

\* Entry texts, as sequences of characters.
Labels ==
    << <<"O", "n", "e">>, <<"T", "w", "o">>, <<"T", "h", "r", "e", "e">>,
       <<"F", "o", "u", "r">>, <<"F", "i", "v", "e">>, <<"S", "i", "x">> >>

\* The first n labels, each followed by the line terminator eol.
Lines(n, eol) == [i \in 1..n |-> Labels[i] \o eol]

\* The text on standard input, one sequence of characters per getline.
Stdins ==
    {Lines(n, <<"\n">>) : n \in 0..MaxN}
    \cup {<< <<"\n">> >> \o Lines(n, <<"\n">>) : n \in 0..MaxN}
    \cup {Lines(n, <<"\r", "\n">>) \o << <<"\r", "\n">> >> : n \in 1..MaxN}
    \cup {Lines(n - 1, <<"\n">>) \o <<Labels[n]>> : n \in 1..MaxN}

Dims == 2..MaxDim
\* Pointer positions of the events of a session: inside every canvas, and
\* outside it to the right and below.
Coords == 0..MaxDim
\* Points the hit test is applied to on its own: also left of and above the
\* canvas.
HitCoords == -1..MaxDim

(***************************************************************************)
(* Geometry: sector_index_from_point.                                      *)
(***************************************************************************)

\* (cos, sin)(i * 2pi/n) * 10^6 for the boundaries with i * 2pi/n <= pi.
BoundaryDir ==
    << <<>>,
       << <<-1000000, 0>> >>,
       << <<-500000, 866025>> >>,
       << <<0, 1000000>>, <<-1000000, 0>> >>,
       << <<309017, 951057>>, <<-809017, 587785>> >>,
       << <<500000, 866025>>, <<-500000, 866025>>, <<-1000000, 0>> >>,
       << <<623490, 781831>>, <<-222521, 974928>>, <<-900969, 433884>> >>,
       << <<707107, 707107>>, <<0, 1000000>>, <<-707107, 707107>>,
          <<-1000000, 0>> >> >>

\* Boundary i of n lies before the direction (px,py), py >= 0, both angles
\* taken in [0, pi]; with strict = FALSE a boundary on the direction counts.
BoundaryBefore(n, i, px, py, strict) ==
    /\ 2 * i <= n
    /\ LET b == BoundaryDir[n][i]
           cross == b[1] * py - b[2] * px
           dot == b[1] * px + b[2] * py
       IN \/ cross > 0
          \/ ~strict /\ cross = 0 /\ dot > 0

\* floor(atan2(dy, dx) / (2pi/n)), atan2 in (-pi, pi], atan2(0,0) = 0.
AtanQuotient(n, dx, dy) ==
    IF dx = 0 /\ dy = 0 THEN 0
    ELSE IF dy >= 0
         THEN Cardinality({i \in 1..n : BoundaryBefore(n, i, dx, dy, FALSE)})
         ELSE -(1 + Cardinality({i \in 1..n :
                                   BoundaryBefore(n, i, dx, -dy, TRUE)}))

sector_index_outside_none(n, W, H, x, y) ==
    IF n <= 0 \/ x < 0 \/ x >= W \/ y < 0 \/ y >= H THEN -1
    ELSE LET dx == 2 * x - W
             dy == 2 * y - H
             q == AtanQuotient(n, dx, dy)
             idx == IF dy < 0 THEN q + n ELSE q
             lo == IF idx < 0 THEN 0 ELSE idx
         IN IF lo >= n THEN n - 1 ELSE lo

sector_index_y_up(n, W, H, x, y) ==
    IF n <= 0 THEN -1
    ELSE LET dx == 2 * x - W
             dy == H - 2 * y
             q == AtanQuotient(n, dx, dy)
             idx == IF dy < 0 THEN q + n ELSE q
             lo == IF idx < 0 THEN 0 ELSE idx
         IN IF lo >= n THEN n - 1 ELSE lo

sector_index_guard_one(n, W, H, x, y) ==
    IF n <= 1 THEN -1
    ELSE LET dx == 2 * x - W
             dy == 2 * y - H
             q == AtanQuotient(n, dx, dy)
             idx == IF dy < 0 THEN q + n ELSE q
             lo == IF idx < 0 THEN 0 ELSE idx
         IN IF lo >= n THEN n - 1 ELSE lo

\* dx, dy are twice the offsets from the centre (W*0.5, H*0.5), which keeps
\* them integers and leaves the angle unchanged.
sector_index_from_point(n, W, H, x, y) ==
    IF n <= 0 THEN -1
    ELSE LET dx == 2 * x - W
             dy == 2 * y - H
             q == AtanQuotient(n, dx, dy)
             \* if (ang < 0) ang += 2pi  adds n to the quotient
             idx == IF dy < 0 THEN q + n ELSE q
             lo == IF idx < 0 THEN 0 ELSE idx
         IN IF lo >= n THEN n - 1 ELSE lo

(***************************************************************************)
(* Reading the menu from standard input.                                   *)
(***************************************************************************)
\* Lines 426-428: drop the trailing newline and carriage-return characters.
RECURSIVE TrimLine(_)
TrimLine(line) ==
    IF Len(line) > 0 /\ (line[Len(line)] = "\n" \/ line[Len(line)] = "\r")
    THEN TrimLine(SubSeq(line, 1, Len(line) - 1))
    ELSE line

RECURSIVE ReadEntriesKeepBlank(_)
ReadEntriesKeepBlank(lines) ==
    IF lines = <<>> THEN <<>>
    ELSE <<TrimLine(Head(lines))>> \o ReadEntriesKeepBlank(Tail(lines))

\* Lines 424-445: one entry per line that is not empty after trimming.
RECURSIVE ReadEntries(_)
ReadEntries(lines) ==
    IF lines = <<>> THEN <<>>
    ELSE LET t == TrimLine(Head(lines))
         IN IF Len(t) = 0 THEN ReadEntries(Tail(lines))
            ELSE <<t>> \o ReadEntries(Tail(lines))

(***************************************************************************)
(* Events.                                                                 *)
(***************************************************************************)
NoEvent == [rt |-> "NONE", detail |-> 0, x |-> 0, y |-> 0, w |-> 0, h |-> 0,
            type |-> "", data0 |-> ""]

Event(rt, detail, x, y, w, h, type, data0) ==
    [rt |-> rt, detail |-> detail, x |-> x, y |-> y, w |-> w, h |-> h,
     type |-> type, data0 |-> data0]

Buttons == {LeftButton, 3}

\* Keycodes of the keyboard and the keysym in column 0 of each.
KeyCodes == {9, 24, 25, 38}

xcb_key_symbols_get_keysym(code) ==
    CASE code = 9 -> XK_Escape
      [] code = 24 -> KeyQLower
      [] code = 25 -> KeyQUpper
      [] OTHER -> 97

Atoms == {"WM_PROTOCOLS", "WM_DELETE_WINDOW"}

ExposeEvents == {Event("EXPOSE", 0, 0, 0, 0, 0, "", "")}
MotionEvents ==
    {Event("MOTION_NOTIFY", 0, x, y, 0, 0, "", "") : x \in Coords, y \in Coords}
PressEvents ==
    UNION {{Event("BUTTON_PRESS", b, x, y, 0, 0, "", "") :
              x \in Coords, y \in Coords} : b \in Buttons}
ReleaseEvents ==
    UNION {{Event("BUTTON_RELEASE", b, x, y, 0, 0, "", "") :
              x \in Coords, y \in Coords} : b \in Buttons}
KeyEvents == {Event("KEY_PRESS", k, 0, 0, 0, 0, "", "") : k \in KeyCodes}
ConfigureEvents ==
    {Event("CONFIGURE_NOTIFY", 0, 0, 0, w, h, "", "") : w \in Dims, h \in Dims}
ClientEvents ==
    {Event("CLIENT_MESSAGE", 0, 0, 0, 0, 0, t, d) : t \in Atoms, d \in Atoms}
OtherEvents == {Event("MAP_NOTIFY", 0, 0, 0, 0, 0, "", "")}

(***************************************************************************)
(* Rendering and surfaces.                                                 *)
(***************************************************************************)
\* The pair of surfaces (window surface and back buffer, each with its
\* context): their size, whether the handles are set (live), and whether
\* their creation succeeded (ok).  gen, freed and peak are history fields:
\* the pairs created so far, the pairs destroyed so far, and the largest
\* number of pairs that existed at one time.
NoSurf == [w |-> 0, h |-> 0, gen |-> 0, freed |-> 0, peak |-> 0,
           live |-> FALSE, ok |-> TRUE]
NoFrame == [w |-> 0, h |-> 0, n |-> 0, hover |-> -1]

\* Lines 296-311 and 622-625: destroy what is set, and reset the handles.
destroy_pair(s) ==
    IF s.live THEN [s EXCEPT !.live = FALSE, !.freed = @ + 1] ELSE s

\* Lines 312-319: create the window surface and the back buffer with the
\* size W x H.  cairo returns an object in any case; when the creation
\* failed (ok = FALSE) the object is in an error state, and nothing in the
\* program asks for that state.
create_pair(s, W, H, ok) ==
    [s EXCEPT !.w = W, !.h = H, !.gen = @ + 1, !.live = TRUE, !.ok = ok,
              !.peak = IF s.gen + 1 - s.freed > @
                       THEN s.gen + 1 - s.freed ELSE @]

recreate_cairo_keep_old(old, W, H, ok) == create_pair(old, W, H, ok)

\* recreate_cairo: the old pair is destroyed, a window surface and a back
\* buffer of the current size are created.
recreate_cairo(old, W, H, ok) == create_pair(destroy_pair(old), W, H, ok)

\* draw: the frame presented for (canvas, n, hover_idx), that is the
\* arguments of the last call of draw.
draw(W, H, n, hover) == [w |-> W, h |-> H, n |-> n, hover |-> hover]

(***************************************************************************)
(* fit_font_size, lines 178-195.  Font sizes are fixed-point numbers with  *)
(* FitSteps binary digits after the point, so that the FitSteps halvings   *)
(* of an interval with whole-number ends are exact, as they are in double  *)
(* arithmetic.  The text measure (cairo_text_extents) is outside the       *)
(* program: it is drawn from a family of non-decreasing functions of the   *)
(* size, width kw * s and height kh * s, or the same of the size rounded   *)
(* up to a whole number when stepped.                                      *)
(***************************************************************************)
FitUnit == 2 ^ FitSteps

MeasureAt(k, stepped, s) ==
    IF stepped THEN k * (((s + FitUnit - 1) \div FitUnit) * FitUnit)
    ELSE k * s

\* Line 189: w <= maxw && h <= maxh at font size s.
Fits(f, s) ==
    /\ MeasureAt(f.kw, f.stepped, s) <= f.maxw * FitUnit
    /\ MeasureAt(f.kh, f.stepped, s) <= f.maxh * FitUnit

\* Line 181: hi = fmax(1.0, fmin(maxw, maxh)).
FitHi(maxw, maxh) ==
    LET m == IF maxw < maxh THEN maxw ELSE maxh
    IN IF m < 1 THEN FitUnit ELSE m * FitUnit

\* Line 181: the search state on entry.
FitStart(maxw, maxh, kw, kh, stepped) ==
    [maxw |-> maxw, maxh |-> maxh, kw |-> kw, kh |-> kh, stepped |-> stepped,
     lo |-> FitUnit, hi |-> FitHi(maxw, maxh), it |-> 0, res |-> 0,
     done |-> FALSE]

\* Lines 184-192: one iteration of the loop.
fit_iteration(f) ==
    LET mid == (f.lo + f.hi) \div 2
    IN IF Fits(f, mid)
       THEN [f EXCEPT !.lo = mid, !.it = @ + 1]
       ELSE [f EXCEPT !.hi = mid, !.it = @ + 1]

FitReturnHi(f) == f.hi

\* Line 194: return lo.
FitReturn(f) == f.lo

FitIdle == FitStart(0, 0, 0, 0, FALSE)

\* The position of the last MotionNotify handled (history variable).
NoPointer == [set |-> FALSE, x |-> 0, y |-> 0]

HitIdle == [n |-> 0, W |-> 0, H |-> 0, x |-> 0, y |-> 0, done |-> FALSE,
            idx |-> 0]


NoRelease == [idx |-> -1, pressed |-> -1, logged |-> FALSE]

(***************************************************************************)
(* main.                                                                   *)
(*                                                                         *)
(* repeat and rel_log are history variables: repeat says that the event    *)
(* just handled equals the one handled before it, rel_log is the line the  *)
(* release handler logs (line 563): the index under the release and the    *)
(* value pressed_idx had at that moment.                                   *)
(***************************************************************************)
Init ==
    /\ pc = "start"
    /\ stdin \in Stdins
    /\ entries = <<>>
    /\ count = 0
    /\ width \in Dims
    /\ height \in Dims
    /\ hover_idx = -1
    /\ pressed_idx = -1
    /\ running = 1
    /\ exit_code = ExitCancel
    /\ out = <<>>
    /\ ndraw = 0
    /\ frame = NoFrame
    /\ ev = NoEvent
    /\ nev = 0
    /\ surf = NoSurf
    /\ grabbed = FALSE
    /\ win = FALSE
    /\ status = -1
    /\ hit = HitIdle
    /\ repeat = FALSE
    /\ rel_log = NoRelease
    /\ fit = FitIdle
    /\ ptr = NoPointer

\* Lines 424-451: no entry on standard input, return 1 before any window.
StartEmpty ==
    /\ pc = "start"
    /\ ReadEntries(stdin) = <<>>
    /\ pc' = "exited"
    /\ stdin' = <<>>
    /\ status' = 1
    /\ UNCHANGED <<entries, count, width, height, hover_idx, pressed_idx,
                   running, exit_code, out, ndraw, frame, ev, nev, surf,
                   grabbed, win, hit, fit, ptr, repeat, rel_log>>

\* Lines 424-520: read the entries, create the window and the surfaces,
\* grab the input, draw the first frame.
StartupStep(ok) ==
    /\ pc = "start"
    /\ ReadEntries(stdin) # <<>>
    /\ entries' = ReadEntries(stdin)
    /\ count' = Len(ReadEntries(stdin))
    /\ stdin' = <<>>
    /\ win' = TRUE
    /\ surf' = recreate_cairo(surf, width, height, ok)
    /\ grabbed' = TRUE
    /\ hover_idx' = -1
    /\ pressed_idx' = -1
    /\ frame' = draw(width, height, Len(ReadEntries(stdin)), -1)
    /\ ndraw' = ndraw + 1
    /\ exit_code' = ExitCancel
    /\ running' = 1
    /\ pc' = "loop"
    /\ UNCHANGED <<width, height, out, ev, nev, status, hit, fit, ptr, repeat,
                   rel_log>>

Startup == StartupStep(TRUE)

\* Startup when the creation of a surface fails at line 509.
StartupAllocFails == StartupStep(FALSE)

\* Line 523: the next event of the stream, which holds MaxEvents events.
Fetch(e) ==
    /\ pc = "loop"
    /\ nev < MaxEvents
    /\ ev' = e
    /\ nev' = nev + 1
    /\ repeat' = (e = ev)

LoopTestForever == pc' = "loop"

\* Line 522, while (running): the loop is left once a handler cleared
\* running.
LoopTest == pc' = IF running' # 0 THEN "loop" ELSE "cleanup"

ExposeNoDraw ==
    \E e \in ExposeEvents :
        /\ Fetch(e)
        /\ UNCHANGED <<stdin, entries, count, width, height, hover_idx,
                       pressed_idx, running, exit_code, out, surf, grabbed,
                       win, status, hit, fit, ptr, rel_log, frame, ndraw>>
        /\ LoopTest

\* Line 527-532.
Expose ==
    \E e \in ExposeEvents :
        /\ Fetch(e)
        /\ frame' = draw(width, height, count, hover_idx)
        /\ ndraw' = ndraw + 1
        /\ UNCHANGED <<stdin, entries, count, width, height, hover_idx,
                       pressed_idx, running, exit_code, out, surf, grabbed,
                       win, status, hit, fit, ptr, rel_log>>
        /\ LoopTest

\* Line 537.
MotionIndex(e) == sector_index_from_point(count, width, height, e.x, e.y)

HoverChangedAlways(idx) == TRUE

\* Line 538.
HoverChanged(idx) == idx # hover_idx

\* Lines 534-544.
MotionStep(e) ==
        /\ Fetch(e)
        /\ LET idx == MotionIndex(e)
           IN IF HoverChanged(idx)
              THEN /\ hover_idx' = idx
                   /\ frame' = draw(width, height, count, idx)
                   /\ ndraw' = ndraw + 1
              ELSE UNCHANGED <<hover_idx, frame, ndraw>>
        /\ UNCHANGED <<stdin, entries, count, width, height, pressed_idx,
                       running, exit_code, out, surf, grabbed, win, status,
                       hit, fit, rel_log>>
        /\ LoopTest

MotionNotify == \E e \in MotionEvents : MotionStep(e) /\ UNCHANGED ptr

\* MotionNotify, with the pointer position recorded in ptr.
MotionNotifyTracked ==
    \E e \in MotionEvents :
        MotionStep(e) /\ ptr' = [set |-> TRUE, x |-> e.x, y |-> e.y]

PressIndexOneBased(e) ==
    sector_index_from_point(count, width, height, e.x, e.y) + 1

\* Line 551.
PressIndex(e) == sector_index_from_point(count, width, height, e.x, e.y)

\* Lines 546-555.
ButtonPress ==
    \E e \in PressEvents :
        /\ Fetch(e)
        /\ pressed_idx' = IF e.detail = LeftButton THEN PressIndex(e)
                          ELSE pressed_idx
        /\ UNCHANGED <<stdin, entries, count, width, height, hover_idx,
                       running, exit_code, out, ndraw, frame, surf, grabbed,
                       win, status, hit, fit, ptr, rel_log>>
        /\ LoopTest

ReleaseIndexPressed(e) == pressed_idx

\* Line 562.
ReleaseIndex(e) == sector_index_from_point(count, width, height, e.x, e.y)

SelectEntryNoNewline(idx) ==
    /\ out' = Append(out, entries[idx + 1])
    /\ exit_code' = ExitSelect
    /\ running' = 0

SelectEntryKeepRunning(idx) ==
    /\ out' = Append(out, entries[idx + 1] \o <<"\n">>)
    /\ exit_code' = ExitSelect
    /\ running' = running

\* Lines 566-570: fprintf(stdout, "%s\n", entries[idx].text).
SelectEntry(idx) ==
    /\ out' = Append(out, entries[idx + 1] \o <<"\n">>)
    /\ exit_code' = ExitSelect
    /\ running' = 0

\* Lines 557-575.
ButtonRelease ==
    \E e \in ReleaseEvents :
        /\ Fetch(e)
        /\ IF e.detail = LeftButton
           THEN LET idx == ReleaseIndex(e)
                IN /\ rel_log' = [idx |-> idx, pressed |-> pressed_idx,
                                  logged |-> TRUE]
                   /\ IF idx >= 0 /\ idx < count
                      THEN SelectEntry(idx)
                      ELSE UNCHANGED <<out, exit_code, running>>
           ELSE UNCHANGED <<rel_log, out, exit_code, running>>
        /\ pressed_idx' = -1
        /\ UNCHANGED <<stdin, entries, count, width, height, hover_idx,
                       ndraw, frame, surf, grabbed, win, status, hit, fit,
                       ptr>>
        /\ LoopTest

IsQuitKeyNoUpper(sym) == sym = XK_Escape \/ sym = KeyQLower

\* Line 582.
IsQuitKey(sym) == sym = XK_Escape \/ sym = KeyQLower \/ sym = KeyQUpper

\* Lines 577-588.
KeyPress ==
    \E e \in KeyEvents :
        /\ Fetch(e)
        /\ IF IsQuitKey(xcb_key_symbols_get_keysym(e.detail))
           THEN /\ exit_code' = ExitCancel
                /\ running' = 0
           ELSE UNCHANGED <<exit_code, running>>
        /\ UNCHANGED <<stdin, entries, count, width, height, hover_idx,
                       pressed_idx, out, ndraw, frame, surf, grabbed, win,
                       status, hit, fit, ptr, rel_log>>
        /\ LoopTest

SizeChangedBoth(e) == e.w # width /\ e.h # height

\* Line 595.
SizeChanged(e) == e.w # width \/ e.h # height

\* Lines 590-603.
ConfigureNotifyNoDraw(e, ok) ==
        /\ Fetch(e)
        /\ IF SizeChanged(e)
           THEN /\ width' = e.w
                /\ height' = e.h
                /\ surf' = recreate_cairo(surf, e.w, e.h, ok)
                /\ UNCHANGED <<frame, ndraw>>
           ELSE UNCHANGED <<width, height, surf, frame, ndraw>>
        /\ UNCHANGED <<stdin, entries, count, hover_idx, pressed_idx,
                       running, exit_code, out, grabbed, win, status, hit,
                       fit, ptr, rel_log>>
        /\ LoopTest

ConfigureNotifyStep(e, ok) ==
        /\ Fetch(e)
        /\ IF SizeChanged(e)
           THEN /\ width' = e.w
                /\ height' = e.h
                /\ surf' = recreate_cairo(surf, e.w, e.h, ok)
                /\ frame' = draw(e.w, e.h, count, hover_idx)
                /\ ndraw' = ndraw + 1
           ELSE UNCHANGED <<width, height, surf, frame, ndraw>>
        /\ UNCHANGED <<stdin, entries, count, hover_idx, pressed_idx,
                       running, exit_code, out, grabbed, win, status, hit,
                       fit, ptr, rel_log>>
        /\ LoopTest

ConfigureNotify == \E e \in ConfigureEvents : ConfigureNotifyStep(e, TRUE)

\* ConfigureNotify when the creation of a surface fails at line 599.
ConfigureNotifyAllocFails ==
    \E e \in ConfigureEvents : SizeChanged(e) /\ ConfigureNotifyStep(e, FALSE)

\* Line 609.
IsDeleteWindow(e) == e.type = "WM_PROTOCOLS" /\ e.data0 = "WM_DELETE_WINDOW"

\* Lines 605-614.
ClientMessage ==
    \E e \in ClientEvents :
        /\ Fetch(e)
        /\ IF IsDeleteWindow(e)
           THEN /\ exit_code' = ExitCancel
                /\ running' = 0
           ELSE UNCHANGED <<exit_code, running>>
        /\ UNCHANGED <<stdin, entries, count, width, height, hover_idx,
                       pressed_idx, out, ndraw, frame, surf, grabbed, win,
                       status, hit, fit, ptr, rel_log>>
        /\ LoopTest

\* Line 616, default: break.
OtherEvent ==
    \E e \in OtherEvents :
        /\ Fetch(e)
        /\ UNCHANGED <<stdin, entries, count, width, height, hover_idx,
                       pressed_idx, running, exit_code, out, ndraw, frame,
                       surf, grabbed, win, status, hit, fit, ptr, rel_log>>
        /\ LoopTest

WaitNullSkipCleanup ==
    /\ pc = "loop"
    /\ pc' = "exited"
    /\ status' = exit_code
    /\ UNCHANGED <<stdin, entries, count, width, height, hover_idx,
                   pressed_idx, running, exit_code, out, ndraw, frame, ev,
                   nev, surf, grabbed, win, hit, fit, ptr, repeat, rel_log>>

\* Lines 523-524: xcb_wait_for_event returns NULL, break.
WaitNull ==
    /\ pc = "loop"
    /\ pc' = "cleanup"
    /\ UNCHANGED <<stdin, entries, count, width, height, hover_idx,
                   pressed_idx, running, exit_code, out, ndraw, frame, ev,
                   nev, surf, grabbed, win, status, hit, fit, ptr, repeat,
                   rel_log>>

\* Lines 621-636.
Cleanup ==
    /\ pc = "cleanup"
    /\ grabbed' = FALSE
    /\ surf' = destroy_pair(surf)
    /\ win' = FALSE
    /\ status' = exit_code
    /\ pc' = "exited"
    /\ UNCHANGED <<stdin, entries, count, width, height, hover_idx,
                   pressed_idx, running, exit_code, out, ndraw, frame, ev,
                   nev, hit, fit, ptr, repeat, rel_log>>

Next ==
    \/ StartEmpty
    \/ Startup
    \/ Expose
    \/ MotionNotify
    \/ ButtonPress
    \/ ButtonRelease
    \/ KeyPress
    \/ ConfigureNotify
    \/ ClientMessage
    \/ OtherEvent
    \/ WaitNull
    \/ Cleanup

Spec == Init /\ [][Next]_vars

(***************************************************************************)
(* The same program with the position of the last MotionNotify recorded.   *)
(***************************************************************************)
NextTrack ==
    \/ StartEmpty
    \/ Startup
    \/ Expose
    \/ MotionNotifyTracked
    \/ ButtonPress
    \/ ButtonRelease
    \/ KeyPress
    \/ ConfigureNotify
    \/ ClientMessage
    \/ OtherEvent
    \/ WaitNull
    \/ Cleanup

SpecTrack == Init /\ [][NextTrack]_vars

(***************************************************************************)
(* The same program in an environment where cairo may fail to create a     *)
(* surface.                                                                *)
(***************************************************************************)
NextAlloc ==
    \/ StartEmpty
    \/ Startup
    \/ StartupAllocFails
    \/ Expose
    \/ MotionNotify
    \/ ButtonPress
    \/ ButtonRelease
    \/ KeyPress
    \/ ConfigureNotify
    \/ ConfigureNotifyAllocFails
    \/ ClientMessage
    \/ OtherEvent
    \/ WaitNull
    \/ Cleanup

SpecAlloc == Init /\ [][NextAlloc]_vars

(***************************************************************************)
(* The hit test on its own: inputs drawn at Init, applied by HitApply.     *)
(***************************************************************************)
HitInputs ==
    [n : -1..(MaxN + 1), W : Dims, H : Dims, x : HitCoords, y : HitCoords,
     done : {FALSE}, idx : {0}]

InitHit ==
    /\ pc = "hit"
    /\ stdin = <<>>
    /\ entries = <<>>
    /\ count = 0
    /\ width = 0
    /\ height = 0
    /\ hover_idx = -1
    /\ pressed_idx = -1
    /\ running = 1
    /\ exit_code = ExitCancel
    /\ out = <<>>
    /\ ndraw = 0
    /\ frame = NoFrame
    /\ ev = NoEvent
    /\ nev = 0
    /\ surf = NoSurf
    /\ grabbed = FALSE
    /\ win = FALSE
    /\ status = -1
    /\ hit \in HitInputs
    /\ repeat = FALSE
    /\ rel_log = NoRelease
    /\ fit = FitIdle
    /\ ptr = NoPointer

HitApply ==
    /\ pc = "hit"
    /\ ~hit.done
    /\ hit' = [hit EXCEPT !.done = TRUE,
                          !.idx = sector_index_from_point(hit.n, hit.W, hit.H,
                                                          hit.x, hit.y)]
    /\ UNCHANGED <<pc, stdin, entries, count, width, height, hover_idx,
                   pressed_idx, running, exit_code, out, ndraw, frame, ev,
                   nev, surf, grabbed, win, status, repeat, rel_log, fit,
                   ptr>>

NextHit == HitApply

SpecHit == InitHit /\ [][NextHit]_vars

(***************************************************************************)
(* fit_font_size on its own: Init draws the box and the measure, one       *)
(* action per loop iteration, one for the return.                          *)
(***************************************************************************)
FitInputs ==
    {FitStart(maxw, maxh, kw, kh, stepped) :
        maxw \in -1..MaxBox, maxh \in -1..MaxBox,
        kw \in 0..MaxSlope, kh \in 0..MaxSlope, stepped \in BOOLEAN}

InitFit ==
    /\ pc = "fit"
    /\ stdin = <<>>
    /\ entries = <<>>
    /\ count = 0
    /\ width = 0
    /\ height = 0
    /\ hover_idx = -1
    /\ pressed_idx = -1
    /\ running = 1
    /\ exit_code = ExitCancel
    /\ out = <<>>
    /\ ndraw = 0
    /\ frame = NoFrame
    /\ ev = NoEvent
    /\ nev = 0
    /\ surf = NoSurf
    /\ grabbed = FALSE
    /\ win = FALSE
    /\ status = -1
    /\ hit = HitIdle
    /\ repeat = FALSE
    /\ rel_log = NoRelease
    /\ fit \in FitInputs
    /\ ptr = NoPointer

FitIterate ==
    /\ pc = "fit"
    /\ fit.it < FitSteps
    /\ fit' = fit_iteration(fit)
    /\ UNCHANGED <<pc, stdin, entries, count, width, height, hover_idx,
                   pressed_idx, running, exit_code, out, ndraw, frame, ev,
                   nev, surf, grabbed, win, status, hit, repeat, rel_log,
                   ptr>>

FitDone ==
    /\ pc = "fit"
    /\ fit.it = FitSteps
    /\ ~fit.done
    /\ fit' = [fit EXCEPT !.done = TRUE, !.res = FitReturn(fit)]
    /\ UNCHANGED <<pc, stdin, entries, count, width, height, hover_idx,
                   pressed_idx, running, exit_code, out, ndraw, frame, ev,
                   nev, surf, grabbed, win, status, hit, repeat, rel_log,
                   ptr>>

NextFit == FitIterate \/ FitDone

SpecFit == InitFit /\ [][NextFit]_vars

(***************************************************************************)
(* Vocabulary of the properties.                                           *)
(***************************************************************************)

\* The session is Running: the loop is about to fetch an event.
Running == pc = "loop" /\ running = 1

\* phase of the session state.
Phase ==
    IF running = 1 THEN "Running"
    ELSE IF exit_code = ExitSelect THEN "Selected" ELSE "Cancelled"

\* This step handles an event of response type rt, fetched while Running.
Handled(rt) == Running /\ nev' = nev + 1 /\ ev'.rt = rt

\* wedgeIndexAt on the canvas before the step, at the point of the event
\* the step handles.
WedgeAtEvent == sector_index_from_point(count, width, height, ev'.x, ev'.y)

\* The point of the last event lies outside [0,W) x [0,H).
Outside(e, W, H) == e.x < 0 \/ e.x >= W \/ e.y < 0 \/ e.y >= H

NL == <<"\n">>

(***************************************************************************)
(* C1.  While Running, a release of the primary button at (x,y) whose      *)
(* wedge index idx = wedgeIndexAt(n,W,H,x,y) is valid makes the session    *)
(* Selected, writes exactly entries[idx] followed by a line terminator,    *)
(* and clears pressed_idx to -1.                                           *)
(***************************************************************************)
C1_ReleaseSelects ==
    [][(/\ Handled("BUTTON_RELEASE")
        /\ ev'.detail = LeftButton
        /\ WedgeAtEvent >= 0
        /\ WedgeAtEvent < count)
       => (/\ running' = 0
           /\ exit_code' = ExitSelect
           /\ Phase' = "Selected"
           /\ out' = Append(out, entries[WedgeAtEvent + 1] \o NL)
           /\ Len(out') = 1
           /\ pressed_idx' = -1)]_vars

\* Three entries on a 3x2 canvas, release right of the centre on its row:
\* wedge 0 is selected and "One" is written.
C1_Witness ==
    /\ ev.rt = "BUTTON_RELEASE"
    /\ ev.detail = LeftButton
    /\ count = 3
    /\ width = 3
    /\ height = 2
    /\ ev.x = 2
    /\ ev.y = 1
    /\ Phase = "Selected"
    /\ out = << <<"O", "n", "e", "\n">> >>
    /\ pressed_idx = -1

(***************************************************************************)
(* C2, as amended.  A release of the primary button at a point outside     *)
(* [0,W) x [0,H), handled while Running, does not stop the program         *)
(* abnormally; the hit test still yields a valid wedge for it, so it is    *)
(* handled like any other release: the session becomes Selected with the   *)
(* label of that wedge written and pressed_idx cleared.                    *)
(***************************************************************************)
C2_OutsideReleaseSelects ==
    [][(/\ Handled("BUTTON_RELEASE")
        /\ ev'.detail = LeftButton
        /\ Outside(ev', width, height))
       => (/\ WedgeAtEvent \in 0..(count - 1)
           /\ Phase' = "Selected"
           /\ out' = <<entries[WedgeAtEvent + 1] \o NL>>
           /\ pressed_idx' = -1
           /\ pc' = "cleanup")]_vars

C2_Witness ==
    /\ ev.rt = "BUTTON_RELEASE"
    /\ ev.detail = LeftButton
    /\ Outside(ev, width, height)
    /\ Phase = "Selected"
    /\ Len(out) = 1
    /\ pressed_idx = -1
    /\ pc = "exited"

\* C2 as stated: such a release leaves the session Running and changes
\* nothing but pressed_idx.
C2_OutsideReleaseNoop ==
    [][(/\ Handled("BUTTON_RELEASE")
        /\ ev'.detail = LeftButton
        /\ Outside(ev', width, height))
       => (/\ Phase' = "Running"
           /\ pc' = "loop"
           /\ out' = out
           /\ pressed_idx' = -1
           /\ UNCHANGED <<hover_idx, width, height, exit_code, ndraw>>)]_vars

(***************************************************************************)
(* C3.  Selected and Cancelled are terminal: once running is cleared, no   *)
(* step changes the phase, writes a label, renders, or handles an event    *)
(* still waiting in the stream.                                            *)
(***************************************************************************)
C3_TerminalIsFinal ==
    [][running = 0
       => (/\ running' = 0
           /\ exit_code' = exit_code
           /\ Phase' = Phase
           /\ out' = out
           /\ ndraw' = ndraw
           /\ frame' = frame
           /\ nev' = nev
           /\ ev' = ev
           /\ hover_idx' = hover_idx
           /\ pressed_idx' = pressed_idx)]_vars

\* A session that ended on its first event and exited with another event
\* still undelivered.
C3_Witness ==
    /\ running = 0
    /\ pc = "exited"
    /\ nev = 1
    /\ nev < MaxEvents
    /\ status = exit_code

(***************************************************************************)
(* C4.  One terminal outcome: at most one label is ever written; a label   *)
(* is written exactly when the session is Selected, and it is the entry    *)
(* under the release; the exit status is 0 exactly when the session ended  *)
(* Selected; a Cancelled session exits non-zero with nothing written.      *)
(***************************************************************************)
C4_OneOutcome ==
    /\ Len(out) <= 1
    /\ (out # <<>>) <=> (Phase = "Selected")
    /\ out # <<>> =>
          /\ ev.rt = "BUTTON_RELEASE"
          /\ ev.detail = LeftButton
          /\ LET idx == sector_index_from_point(count, width, height,
                                                ev.x, ev.y)
             IN /\ idx \in 0..(count - 1)
                /\ out = <<entries[idx + 1] \o NL>>
    /\ pc = "exited" =>
          /\ status \in {0, 1}
          /\ (status = 0) <=> (Phase = "Selected")
          /\ Phase = "Cancelled" => (status # 0 /\ out = <<>>)

C4_Witness ==
    /\ pc = "exited"
    /\ status = 0
    /\ Phase = "Selected"
    /\ count = 3
    /\ out = <<entries[3] \o NL>>

(***************************************************************************)
(* C5.  The selection is decided by the release location alone: whatever   *)
(* pressed_idx and hover_idx were when the primary button was released,    *)
(* the index the handler used is wedgeIndexAt at the release point on the  *)
(* current canvas, and the label of that index is what was written.        *)
(***************************************************************************)
C5_ReleaseLocationDecides ==
    rel_log.logged =>
        /\ ev.rt = "BUTTON_RELEASE"
        /\ rel_log.idx =
              sector_index_from_point(count, width, height, ev.x, ev.y)
        /\ Phase = "Selected"
        /\ out = <<entries[rel_log.idx + 1] \o NL>>

\* Pressed over one wedge, released over another, hover on neither.
C5_Witness ==
    /\ rel_log.logged
    /\ rel_log.pressed >= 0
    /\ rel_log.pressed # rel_log.idx
    /\ hover_idx # rel_log.idx
    /\ Phase = "Selected"
    /\ out = <<entries[rel_log.idx + 1] \o NL>>

(***************************************************************************)
(* C6.  While Running, a key press whose keysym is Escape, q or Q, and a   *)
(* WM_PROTOCOLS client message carrying WM_DELETE_WINDOW, make the         *)
(* session Cancelled without writing a label and without rendering.        *)
(***************************************************************************)
C6_CancelInputs ==
    [][(\/ /\ Handled("KEY_PRESS")
           /\ xcb_key_symbols_get_keysym(ev'.detail)
                 \in {XK_Escape, KeyQLower, KeyQUpper}
        \/ /\ Handled("CLIENT_MESSAGE")
           /\ ev'.type = "WM_PROTOCOLS"
           /\ ev'.data0 = "WM_DELETE_WINDOW")
       => (/\ Phase' = "Cancelled"
           /\ pc' = "cleanup"
           /\ out' = out
           /\ ndraw' = ndraw
           /\ frame' = frame)]_vars

C6_Witness ==
    /\ Phase = "Cancelled"
    /\ ev.rt = "KEY_PRESS"
    /\ xcb_key_symbols_get_keysym(ev.detail) = KeyQUpper
    /\ out = <<>>
    /\ ndraw = 1
    /\ nev = 1

(***************************************************************************)
(* C7.  Hover idempotence: while Running, a pointer move renders exactly   *)
(* when wedgeIndexAt at its point differs from hover_idx, and then the     *)
(* frame shows the new hover_idx; a move to the point of the move handled  *)
(* just before it renders nothing.                                         *)
(***************************************************************************)
C7_HoverIdempotence ==
    [][Handled("MOTION_NOTIFY")
       => (/\ ndraw' \in {ndraw, ndraw + 1}
           /\ (ndraw' = ndraw + 1) <=> (WedgeAtEvent # hover_idx)
           /\ hover_idx' = WedgeAtEvent
           /\ ndraw' = ndraw + 1 =>
                 frame' = [w |-> width, h |-> height, n |-> count,
                           hover |-> WedgeAtEvent]
           /\ ndraw' = ndraw => frame' = frame
           /\ (ev.rt = "MOTION_NOTIFY" /\ ev'.x = ev.x /\ ev'.y = ev.y)
                 => ndraw' = ndraw)]_vars

\* Two moves to the same point in a row: the first frame and one more.
C7_Witness ==
    /\ repeat
    /\ ev.rt = "MOTION_NOTIFY"
    /\ nev = 2
    /\ ndraw = 2
    /\ hover_idx = sector_index_from_point(count, width, height, ev.x, ev.y)
    /\ frame.hover = hover_idx

(***************************************************************************)
(* C8.  While Running, a resize to other dimensions makes them the canvas  *)
(* and renders once with them; a resize to the current dimensions renders  *)
(* nothing and keeps the buffers; neither changes hover_idx, pressed_idx   *)
(* or the phase.                                                           *)
(***************************************************************************)
C8_Resize ==
    [][Handled("CONFIGURE_NOTIFY")
       => (/\ IF <<ev'.w, ev'.h>> # <<width, height>>
              THEN /\ width' = ev'.w
                   /\ height' = ev'.h
                   /\ ndraw' = ndraw + 1
                   /\ frame' = [w |-> ev'.w, h |-> ev'.h, n |-> count,
                                hover |-> hover_idx]
                   /\ surf'.w = ev'.w
                   /\ surf'.h = ev'.h
                   /\ surf'.gen = surf.gen + 1
                   /\ surf'.live
              ELSE UNCHANGED <<width, height, ndraw, frame, surf>>
           /\ UNCHANGED <<hover_idx, pressed_idx, running, exit_code, out>>
           /\ Phase' = Phase)]_vars

\* The first event resized the width alone and the second frame has it.
C8_Witness ==
    /\ ev.rt = "CONFIGURE_NOTIFY"
    /\ nev = 1
    /\ ndraw = 2
    /\ width = ev.w
    /\ height = ev.h
    /\ frame.w = ev.w
    /\ frame.h = ev.h
    /\ frame.w # frame.h
    /\ surf.w = ev.w
    /\ surf.h = ev.h
    /\ surf.gen = 2
    /\ surf.live
    /\ Phase = "Running"

(***************************************************************************)
(* C9.  Ignored input: while Running, a press or release of a button other *)
(* than the primary one, a key press with a keysym that is no cancel key,  *)
(* and an event of no handled type leave hover_idx, pressed_idx, the       *)
(* phase and the canvas unchanged, write nothing and render nothing.       *)
(***************************************************************************)
C9_IgnoredInput ==
    [][(\/ Handled("BUTTON_PRESS") /\ ev'.detail # LeftButton
        \/ Handled("BUTTON_RELEASE") /\ ev'.detail # LeftButton
        \/ /\ Handled("KEY_PRESS")
           /\ xcb_key_symbols_get_keysym(ev'.detail)
                 \notin {XK_Escape, KeyQLower, KeyQUpper}
        \/ Handled("MAP_NOTIFY"))
       => UNCHANGED <<hover_idx, pressed_idx, running, exit_code, width,
                      height, out, ndraw, frame>>]_vars

(***************************************************************************)
(* C10.  Hit-test range: sector_index_from_point returns -1 exactly when   *)
(* n <= 0, and for n >= 1 an index in 0..n-1 at every point, inside the    *)
(* canvas, outside it, or at its centre.                                   *)
(***************************************************************************)
C10_HitTestRange ==
    hit.done =>
        /\ (hit.idx = -1) <=> (hit.n <= 0)
        /\ hit.n >= 1 => hit.idx \in 0..(hit.n - 1)

\* The hit test applied at the exact centre of a canvas with several wedges.
C10_Witness ==
    /\ hit.done
    /\ hit.n >= 2
    /\ 2 * hit.x = hit.W
    /\ 2 * hit.y = hit.H
    /\ hit.idx \in 0..(hit.n - 1)

(***************************************************************************)
(* C11.  Hit-test partition: for n >= 1 a point other than the centre maps *)
(* to wedge i exactly when the angle of (x - W/2, y - H/2), measured from  *)
(* the positive x axis and growing clockwise on the screen (y downward),   *)
(* lies in [i * 2pi/n, (i+1) * 2pi/n).  For n = 4 the points right and     *)
(* below, left and below, left and above, right and above the centre map   *)
(* to wedges 0, 1, 2, 3; a point on the positive x axis maps to wedge 0.   *)
(***************************************************************************)

\* (cos, sin)(i * 2pi/n) * 10^6 for every boundary i in 0..n.
WedgeDir(n, i) ==
    IF i = 0 \/ i = n THEN <<1000000, 0>>
    ELSE IF 2 * i <= n THEN BoundaryDir[n][i]
    ELSE <<BoundaryDir[n][n - i][1], -BoundaryDir[n][n - i][2]>>

Cross(a, b) == a[1] * b[2] - a[2] * b[1]

\* The direction p, not the zero vector, has its angle in the span of
\* wedge i of n: at or after boundary i, strictly before boundary i+1.
InWedge(n, i, p) ==
    CASE n = 1 -> TRUE
      [] n = 2 -> IF i = 0 THEN p[2] > 0 \/ (p[2] = 0 /\ p[1] > 0)
                  ELSE p[2] < 0 \/ (p[2] = 0 /\ p[1] < 0)
      [] OTHER -> /\ Cross(WedgeDir(n, i), p) >= 0
                  /\ Cross(p, WedgeDir(n, i + 1)) > 0

HitDir == <<2 * hit.x - hit.W, 2 * hit.y - hit.H>>

C11_HitTestPartition ==
    (hit.done /\ hit.n >= 1 /\ HitDir # <<0, 0>>) =>
        /\ \A i \in 0..(hit.n - 1) :
              (hit.idx = i) <=> InWedge(hit.n, i, HitDir)
        /\ (HitDir[2] = 0 /\ HitDir[1] > 0) => hit.idx = 0
        /\ hit.n = 4 =>
              /\ (HitDir[1] > 0 /\ HitDir[2] > 0) => hit.idx = 0
              /\ (HitDir[1] < 0 /\ HitDir[2] > 0) => hit.idx = 1
              /\ (HitDir[1] < 0 /\ HitDir[2] < 0) => hit.idx = 2
              /\ (HitDir[1] > 0 /\ HitDir[2] < 0) => hit.idx = 3

\* Four wedges, a point left of and above the centre: wedge 2.
C11_Witness ==
    /\ hit.done
    /\ hit.n = 4
    /\ HitDir[1] < 0
    /\ HitDir[2] < 0
    /\ hit.idx = 2

(***************************************************************************)
(* C12.  Empty-menu guard: when standard input holds no entry once blank   *)
(* lines are skipped, the program exits with a failure status before any   *)
(* window is created, any input grabbed, any event handled or any frame    *)
(* drawn; so every frame drawn in a session has n >= 1.                    *)
(***************************************************************************)

\* Every line consists of line terminator characters only.
AllBlank(lines) ==
    \A i \in 1..Len(lines) :
        \A j \in 1..Len(lines[i]) : lines[i][j] \in {"\n", "\r"}

C12_EmptyMenuGuard ==
    [][/\ (pc = "start" /\ AllBlank(stdin))
          => (/\ pc' = "exited"
              /\ status' = 1
              /\ win' = FALSE
              /\ grabbed' = FALSE
              /\ surf' = NoSurf
              /\ nev' = 0
              /\ ndraw' = 0
              /\ frame' = NoFrame)
       /\ ndraw' # ndraw
          => (/\ count' >= 1
              /\ frame'.n = count'
              /\ Len(entries') = count')]_vars

C12_Witness ==
    /\ pc = "exited"
    /\ count = 0
    /\ entries = <<>>
    /\ status = 1
    /\ ~win
    /\ ~grabbed
    /\ ndraw = 0
    /\ nev = 0

(***************************************************************************)
(* C13.  Session-state range: the session starts Running with hover_idx    *)
(* and pressed_idx at -1; in every state both lie in -1..count-1; count    *)
(* and the entries never change once the session has started.              *)
(***************************************************************************)
IndexRange ==
    /\ hover_idx \in -1..(count - 1)
    /\ pressed_idx \in -1..(count - 1)

C13_SessionRange ==
    /\ []IndexRange
    /\ [][/\ (pc = "start" /\ pc' = "loop")
             => (/\ running' = 1
                 /\ hover_idx' = -1
                 /\ pressed_idx' = -1
                 /\ count' = Len(entries'))
          /\ pc # "start" => UNCHANGED <<count, entries>>]_vars

\* Both indices at the upper end of the range.
C13_Witness ==
    /\ Running
    /\ count = 3
    /\ hover_idx = 2
    /\ pressed_idx = 2

(***************************************************************************)
(* C15.  While Running, an Expose event draws exactly one frame, for the   *)
(* current entries, canvas and hover_idx, and changes no session state.    *)
(***************************************************************************)
C15_Expose ==
    [][Handled("EXPOSE")
       => (/\ ndraw' = ndraw + 1
           /\ frame' = [w |-> width, h |-> height, n |-> count,
                        hover |-> hover_idx]
           /\ UNCHANGED <<hover_idx, pressed_idx, running, exit_code, width,
                          height, out, surf, entries, count>>
           /\ Phase' = Phase)]_vars

\* A pointer move, then an Expose: the third frame shows the hovered wedge.
C15_Witness ==
    /\ Running
    /\ ev.rt = "EXPOSE"
    /\ nev = 2
    /\ ndraw = 3
    /\ hover_idx >= 0
    /\ frame.hover = hover_idx

(***************************************************************************)
(* C16.  pressed_idx lifecycle: a primary press sets it to wedgeIndexAt at *)
(* the press point and renders nothing and changes neither hover_idx nor   *)
(* the phase; the primary release and a cancel (cancel key or close        *)
(* request) set it back to -1, so it is non-negative only between a        *)
(* primary press and its release or cancel.                                *)
(***************************************************************************)
CancelStep ==
    \/ /\ Handled("KEY_PRESS")
       /\ xcb_key_symbols_get_keysym(ev'.detail)
             \in {XK_Escape, KeyQLower, KeyQUpper}
    \/ /\ Handled("CLIENT_MESSAGE")
       /\ ev'.type = "WM_PROTOCOLS"
       /\ ev'.data0 = "WM_DELETE_WINDOW"

PrimaryPressStep == Handled("BUTTON_PRESS") /\ ev'.detail = LeftButton

PrimaryReleaseStep == Handled("BUTTON_RELEASE") /\ ev'.detail = LeftButton

C16_PressLifecycle ==
    [][/\ PrimaryPressStep
          => (/\ pressed_idx' = WedgeAtEvent
              /\ UNCHANGED <<hover_idx, running, exit_code, ndraw, frame>>)
       /\ PrimaryReleaseStep => pressed_idx' = -1
       /\ CancelStep => pressed_idx' = -1]_vars

(***************************************************************************)
(* C14.  Font fit, as stated: for every box and every non-decreasing       *)
(* measure, fit_font_size returns a size in [1, max(1, min(maxw, maxh))]   *)
(* whose measured box fits (width <= maxw and height <= maxh).             *)
(***************************************************************************)
FitInInterval ==
    /\ fit.res >= FitUnit
    /\ fit.res <= FitHi(fit.maxw, fit.maxh)

C14_FontFitAlways == fit.done => (FitInInterval /\ Fits(fit, fit.res))

(***************************************************************************)
(* C14, amended: the returned size is in the interval, and its measured    *)
(* box fits whenever the box measured at size 1 fits; when size 1 does not *)
(* fit, the result is size 1.                                              *)
(***************************************************************************)
C14_FontFit ==
    fit.done =>
        /\ FitInInterval
        /\ Fits(fit, FitUnit) => Fits(fit, fit.res)
        /\ ~Fits(fit, FitUnit) => fit.res = FitUnit

C14_Witness ==
    /\ fit.done
    /\ Fits(fit, FitUnit)
    /\ ~Fits(fit, FitHi(fit.maxw, fit.maxh))
    /\ fit.res > FitUnit
    /\ fit.res < FitHi(fit.maxw, fit.maxh)
    /\ Fits(fit, fit.res)

(***************************************************************************)
(* C17.  Hover tracks the pointer: in every Running state reached after at *)
(* least one MotionNotify, hover_idx is the wedge of the last motion       *)
(* position on the current canvas, also after a ConfigureNotify that       *)
(* changed the canvas.                                                     *)
(***************************************************************************)
C17_HoverTracksPointer ==
    (Running /\ ptr.set)
        => hover_idx = sector_index_from_point(count, width, height,
                                               ptr.x, ptr.y)

(***************************************************************************)
(* C18.  Allocation failure is fatal: when the creation of the window      *)
(* surface or of the back buffer fails, at startup or on a resize, the     *)
(* step does not go back to the event loop and no frame is drawn with the  *)
(* failed pair; while the program runs its pair is a good one; and a       *)
(* program that ended with a failed pair has released the grabs and the    *)
(* window and returned the failure status.                                 *)
(***************************************************************************)
AllocFailed == surf.gen > 0 /\ ~surf.ok

C18_AllocFailureFatal ==
    /\ [][(surf'.gen # surf.gen /\ ~surf'.ok)
            => (pc' # "loop" /\ ndraw' = ndraw)]_vars
    /\ [](pc = "loop" => ~AllocFailed)
    /\ []((pc = "exited" /\ AllocFailed)
            => (status = ExitCancel /\ ~grabbed /\ ~win))

(***************************************************************************)
(* C19.  The presented frame is never stale: the first frame is drawn      *)
(* before the first event is fetched, and whenever the loop is about to    *)
(* fetch an event while Running, the last frame drawn was drawn for the    *)
(* current hover_idx, width and height.  (frame is the last call of draw;  *)
(* each handler, its draw included, is one step, so the next event is      *)
(* fetched only after it.)                                                 *)
(***************************************************************************)
C19_FrameNeverStale ==
    Running =>
        /\ ndraw >= 1
        /\ frame.hover = hover_idx
        /\ frame.w = width
        /\ frame.h = height
        /\ frame.n = count

\* A motion changed the hover index, then a resize changed the canvas; the
\* third frame shows both.
C19_Witness ==
    /\ Running
    /\ nev = 2
    /\ ev.rt = "CONFIGURE_NOTIFY"
    /\ ndraw = 3
    /\ hover_idx >= 0
    /\ frame.hover = hover_idx
    /\ frame.w = ev.w
    /\ frame.h = ev.h
    /\ surf.gen = 2

(***************************************************************************)
(* C20.  The buffer pair matches the canvas: at every call of draw exactly *)
(* one pair of surfaces exists, and it was created with the current width  *)
(* and height; a resize destroys the old pair before it creates the new    *)
(* one and before it draws, so two pairs never exist together; no pair is  *)
(* destroyed twice, draw is never called without a live pair, and at exit  *)
(* every pair created has been destroyed.                                  *)
(***************************************************************************)
C20_BufferPair ==
    /\ [][ndraw' # ndraw
            => (/\ surf'.live
                /\ surf'.ok
                /\ surf'.gen - surf'.freed = 1
                /\ surf'.w = width'
                /\ surf'.h = height')]_vars
    /\ [][surf'.gen # surf.gen
            => (surf'.gen = surf.gen + 1 /\ surf'.freed = surf.gen)]_vars
    /\ [](surf.peak <= 1 /\ surf.freed <= surf.gen)
    /\ [](pc = "exited" => (~surf.live /\ surf.freed = surf.gen))

\* A resize replaced the first pair, the second frame was drawn on the second
\* pair, and the program has ended with both pairs destroyed.
C20_Witness ==
    /\ pc = "exited"
    /\ surf.gen = 2
    /\ surf.freed = 2
    /\ surf.peak = 1
    /\ ~surf.live
    /\ ndraw = 2
    /\ frame.w = surf.w
    /\ frame.h = surf.h
    /\ surf.w = width
    /\ surf.h = height

(***************************************************************************)
(* C21.  The end of the event stream is a cancellation: when waiting for   *)
(* the next event yields no event while Running, the loop stops without    *)
(* handling an event, writing a label or drawing; the teardown (ungrab,    *)
(* surfaces destroyed, window destroyed) runs; and the process exits with  *)
(* the cancel status, which is not zero, and with nothing written.         *)
(***************************************************************************)
\* The step in which the wait returned no event: the loop is left although
\* no event was fetched.
StreamEndStep == Running /\ pc' # "loop" /\ nev' = nev

\* The program has ended by the end of the stream: it went through start-up
\* and running was never cleared.
EndedByStreamEnd == pc = "exited" /\ surf.gen > 0 /\ running = 1

C21_StreamEnd ==
    /\ [][StreamEndStep
            => (/\ pc' = "cleanup"
                /\ exit_code' = ExitCancel
                /\ UNCHANGED <<out, ndraw, frame, ev, hover_idx, pressed_idx,
                               running, status>>)]_vars
    /\ [][pc = "cleanup"
            => (/\ pc' = "exited"
                /\ ~grabbed'
                /\ ~surf'.live
                /\ surf'.freed = surf'.gen
                /\ ~win'
                /\ status' = exit_code
                /\ out' = out)]_vars
    /\ [](EndedByStreamEnd
            => (/\ status = ExitCancel
                /\ status # 0
                /\ out = <<>>
                /\ ~grabbed
                /\ ~surf.live
                /\ ~win))

\* The stream ended after a primary press that was never released.
C21_Witness ==
    /\ EndedByStreamEnd
    /\ nev = 1
    /\ ev.rt = "BUTTON_PRESS"
    /\ pressed_idx >= 0
    /\ status = ExitCancel
    /\ out = <<>>
    /\ ~grabbed
    /\ ~win
    /\ ~surf.live

====
